---------------------------- MODULE Spec2Model ----------------------------
(***************************************************************************)
(* Model of packages/docgen/src/compiler.ts: the docgen entry point.       *)
(*                                                                         *)
(*   loadOptions   recursive tsconfig loading (lines 30-42)                *)
(*   main          the pipeline: options, program, discovery, doc model,   *)
(*                 sort, docs directory, print + write per document,       *)
(*                 await of the writes, manifest (lines 44-107)            *)
(*   main().catch  the rejection handler (lines 109-112)                   *)
(*                                                                         *)
(* TypeLocator, ApiDocGenerator, sortSelector and ApiDocPrinter are        *)
(* imported from ./docgen and are modelled from their specified contract.  *)
(***************************************************************************)
EXTENDS Integers, Sequences, FiniteSets, TLC

VARIABLES
    files,          \* the configuration files require() can load: path -> config
    loaded,         \* what loadOptions('../../../tsconfig.json') returned
    options,        \* the options object of main after lines 55-57
    programOptions, \* the option set handed to ts.createProgram
    exports,        \* what a scan of srcDir finds, in traversal order
    apis,           \* the instances findExportedInstances returned
    apiDocs,        \* the sorted documents
    dirCreated,     \* dist/docs exists
    cursor,         \* index of the next document of the print/write callback
    writes,         \* the writeFile calls issued so far, with their outcome
    settled,        \* the indexes of the writes, in the order they completed
    manifest,       \* the lines written to mkdocs.yml
    pc,             \* position of main
    error,          \* the error main rejected with
    exitCode,       \* exit status of the process
    sortIn,         \* input of a sort
    sortOut,        \* its result
    sortAgain       \* the result sorted once more

confVars == <<files, loaded, options, programOptions>>
runVars  == <<exports, apis, apiDocs, dirCreated, cursor, writes, settled, manifest>>
ctlVars  == <<pc, error, exitCode>>
sortVars == <<sortIn, sortOut, sortAgain>>
vars     == <<confVars, runVars, ctlVars, sortVars>>

(***************************************************************************)
(* Bounds of the model.                                                    *)
(***************************************************************************)
MaxStack == 5
MaxApis == 3
MaxSortLen == 3

(***************************************************************************)
(* Paths are sequences of segments.                                        *)
(***************************************************************************)
DotSegments == {".", ".."}

\* String.prototype.startsWith('.') on a path: its first segment starts with a dot
StartsWithDot(p) == Len(p) > 0 /\ p[1] \in DotSegments

\* path.dirname
Dirname(p) == IF Len(p) <= 1 THEN <<".">> ELSE SubSeq(p, 1, Len(p) - 1)

RECURSIVE NormalizeFrom(_, _)
NormalizeFrom(done, rest) ==
    IF rest = <<>> THEN done
    ELSE LET s == Head(rest) IN
         IF s = "." THEN NormalizeFrom(done, Tail(rest))
         ELSE IF s = ".." /\ done # <<>> /\ done[Len(done)] # ".."
              THEN NormalizeFrom(SubSeq(done, 1, Len(done) - 1), Tail(rest))
              ELSE NormalizeFrom(Append(done, s), Tail(rest))

\* path.join: concatenates and normalises
Join(a, b) == NormalizeFrom(<<>>, a \o b)

(***************************************************************************)
(* Compiler options are functions from option keys to values.              *)
(***************************************************************************)
NoOptions == [k \in {} |-> TRUE]

\* { ...a, ...b }
Spread(a, b) == [k \in DOMAIN a \cup DOMAIN b |-> IF k \in DOMAIN b THEN b[k] ELSE a[k]]

Returned(o) == [status |-> "ok", value |-> o]
ReturnedUndefined == [status |-> "undefined", value |-> NoOptions]
Thrown == [status |-> "throw", value |-> NoOptions]

\* the value a spread reads from a call's result: spreading undefined adds nothing
SpreadSource(r) == IF r.status = "ok" THEN r.value ELSE NoOptions

\* the mutant of MergeWithParent: the parent's keys override the child's
MergeParentWins(parentOptions, config) ==
    Spread(IF config.defined THEN config.compilerOptions ELSE NoOptions, parentOptions)

\* line 41: { ...loadOptions(parent), ...config.compilerOptions }
MergeWithParent(parentOptions, config) ==
    Spread(parentOptions, IF config.defined THEN config.compilerOptions ELSE NoOptions)

\* line 37-39: a parent that starts with '.' is relative to the file naming it
ParentPath(path, parent) ==
    IF StartsWithDot(parent) THEN Join(Dirname(path), parent) ELSE parent

RECURSIVE loadOptions(_, _, _)
loadOptions(fs, path, stack) ==
    IF stack = 0 \/ path \notin DOMAIN fs
    THEN Thrown  \* RangeError of a cyclic extends chain, or require() finds no file
    ELSE LET config == fs[path]
             parent == config.extends
         IN  IF parent = <<>>
             THEN IF config.defined THEN Returned(config.compilerOptions)
                                    ELSE ReturnedUndefined
             ELSE LET r == loadOptions(fs, ParentPath(path, parent), stack - 1)
                  IN  IF r.status = "throw" THEN Thrown
                      ELSE Returned(MergeWithParent(SpreadSource(r), config))

\* the mutant of ApplyOverrides: moduleResolution is deleted, noEmit is not forced
ApplyOverridesNoEmitKept(o) ==
    [k \in (DOMAIN o \ {"moduleResolution"}) \cup {"removeComments"} |->
        IF k = "removeComments" THEN FALSE ELSE o[k]]

\* lines 55-57: delete options.moduleResolution; removeComments = false; noEmit = true
ApplyOverrides(o) ==
    [k \in (DOMAIN o \ {"moduleResolution"}) \cup {"removeComments", "noEmit"} |->
        IF k = "removeComments" THEN FALSE
        ELSE IF k = "noEmit" THEN TRUE
        ELSE o[k]]

(***************************************************************************)
(* The configuration files.                                                *)
(***************************************************************************)
RootConfig   == <<"..", "..", "..", "tsconfig.json">>
BaseConfig   == <<"..", "..", "..", "tsconfig.base.json">>
SharedConfig == <<"..", "..", "..", "config", "tsconfig.json">>
ModuleConfig == <<"@spotify", "tsconfig">>

ExtendsValues ==
    { <<>>,
      <<".", "tsconfig.base.json">>,
      <<".", "config", "tsconfig.json">>,
      <<"..", "tsconfig.base.json">>,
      <<"@spotify", "tsconfig">> }

OptionSets ==
    { NoOptions,
      [k \in {"strict", "removeComments"} |-> TRUE],
      [k \in {"moduleResolution", "noEmit", "strict"} |->
          IF k = "moduleResolution" THEN "node" ELSE FALSE] }

Configs ==
    {[extends |-> e, defined |-> TRUE, compilerOptions |-> o] :
        e \in ExtendsValues, o \in OptionSets}
    \cup {[extends |-> e, defined |-> FALSE, compilerOptions |-> NoOptions] :
        e \in ExtendsValues}

ModuleFile ==
    [extends |-> <<>>, defined |-> TRUE,
     compilerOptions |-> [k \in {"target", "noEmit"} |-> IF k = "target" THEN "es2019" ELSE FALSE]]

FileSystem(root, base, shared) ==
    (RootConfig :> root) @@ (BaseConfig :> base) @@ (SharedConfig :> shared)
        @@ (ModuleConfig :> ModuleFile)

FileSystems == {FileSystem(r, b, s) : r \in Configs, b \in Configs, s \in Configs}

\* the file systems of the runs of the whole pipeline
PlainConfig == [extends |-> <<>>, defined |-> TRUE, compilerOptions |-> NoOptions]
RunFileSystems ==
    { FileSystem([PlainConfig EXCEPT !.extends = <<".", "tsconfig.base.json">>],
                 [PlainConfig EXCEPT !.compilerOptions = [k \in {"strict"} |-> TRUE]],
                 PlainConfig),
      FileSystem([PlainConfig EXCEPT !.extends = <<"..", "tsconfig.base.json">>],
                 PlainConfig, PlainConfig) }

NoError == [stage |-> "none", message |-> <<>>]

(***************************************************************************)
(* main, lines 53-59.                                                      *)
(***************************************************************************)
\* lines 53-57: a throw of loadOptions, or of the delete on undefined, rejects main
LoadConfig ==
    /\ pc = "start"
    /\ LET r == loadOptions(files, RootConfig, MaxStack) IN
       /\ loaded' = r
       /\ IF r.status = "ok"
          THEN /\ options' = ApplyOverrides(r.value)
               /\ pc' = "configured"
               /\ error' = error
          ELSE /\ options' = options
               /\ pc' = "rejected"
               /\ error' = [stage |-> "config", message |-> <<"config">>]
    /\ UNCHANGED <<files, programOptions, exitCode, runVars, sortVars>>

\* line 59: ts.createProgram([entrypoint], options)
CreateProgram ==
    /\ pc = "configured"
    /\ programOptions' = options
    /\ pc' = "program"
    /\ UNCHANGED <<files, loaded, options, error, exitCode, runVars, sortVars>>

(***************************************************************************)
(* Documents.  A document id is a string, kept as its sequence of          *)
(* characters so that its code points can be compared.                     *)
(***************************************************************************)
CodePoint == ("A" :> 65) @@ ("B" :> 66) @@ ("a" :> 97) @@ ("b" :> 98) @@ ("." :> 46)

\* String.prototype.toLowerCase on one code point of the alphabet
ToLowerCase(cp) == IF cp >= 65 /\ cp <= 90 THEN cp + 32 ELSE cp

\* the case-normalised code-point sequence of a string
SortKey(str) == [i \in 1..Len(str) |-> ToLowerCase(CodePoint[str[i]])]

RECURSIVE CompareKeys(_, _)
CompareKeys(a, b) ==
    IF a = <<>> /\ b = <<>> THEN 0
    ELSE IF a = <<>> THEN -1
    ELSE IF b = <<>> THEN 1
    ELSE IF Head(a) < Head(b) THEN -1
    ELSE IF Head(a) > Head(b) THEN 1
    ELSE CompareKeys(Tail(a), Tail(b))

\* the comparator sortSelector(x => x.id) returns
sortSelector(x, y) == CompareKeys(SortKey(x.id), SortKey(y.id))

\* an insertion that puts an element before the elements it ties with
RECURSIVE InsertBeforeTies(_, _)
InsertBeforeTies(sorted, x) ==
    IF sorted = <<>> THEN <<x>>
    ELSE IF sortSelector(Head(sorted), x) < 0
         THEN <<Head(sorted)>> \o InsertBeforeTies(Tail(sorted), x)
         ELSE <<x>> \o sorted

\* Array.prototype.sort is stable: an element goes after the elements it ties with
RECURSIVE InsertSorted(_, _)
InsertSorted(sorted, x) ==
    IF sorted = <<>> THEN <<x>>
    ELSE IF sortSelector(Head(sorted), x) <= 0
         THEN <<Head(sorted)>> \o InsertSorted(Tail(sorted), x)
         ELSE <<x>> \o sorted

RECURSIVE UnstableSort(_)
UnstableSort(docs) ==
    IF docs = <<>> THEN <<>>
    ELSE InsertBeforeTies(UnstableSort(SubSeq(docs, 1, Len(docs) - 1)), docs[Len(docs)])

\* Array.prototype.sort with the comparator of sortSelector
RECURSIVE StableSort(_)
StableSort(docs) ==
    IF docs = <<>> THEN <<>>
    ELSE InsertSorted(StableSort(SubSeq(docs, 1, Len(docs) - 1)), docs[Len(docs)])

\* the mutant of SortDocs: documents that tie change places
SortDocsUnstable(docs) == UnstableSort(docs)

\* line 82: .sort(sortSelector(x => x.id))
SortDocs(docs) == StableSort(docs)

\* a string of characters as text
RECURSIVE Text(_)
Text(str) == IF str = <<>> THEN "" ELSE Head(str) \o Text(Tail(str))

\* ApiDocGenerator.toDoc on an instance whose type resolves
toDoc(api) == [id |-> api.id, name |-> api.name, source |-> api.source]

\* ApiDocPrinter.print
print(doc) == "# " \o doc.name

RootDir    == <<"packages", "docgen">>
ApiRefsDir == Join(RootDir, <<"dist">>)
MkdocsYaml == Join(ApiRefsDir, <<"mkdocs.yml">>)

\* the mutant of DocPath: the file is named after the id
DocPathById(doc) == Join(ApiRefsDir, <<"docs", Text(doc.id) \o ".md">>)

\* line 94: join(apiRefsDir, 'docs', `${apiDoc.name}.md`)
DocPath(doc) == Join(ApiRefsDir, <<"docs", doc.name \o ".md">>)

\* the mutant of NavEntry: the entry points at a file named after the id
NavEntryById(doc) == "  - " \o Text(doc.id) \o ": '" \o Text(doc.id) \o ".md'"

\* line 103: `  - ${id}: '${name}.md'`
NavEntry(doc) == "  - " \o Text(doc.id) \o ": '" \o doc.name \o ".md'"

\* lines 100-104: the lines joined with '\n' into mkdocs.yml
ManifestLines(docs) ==
    <<"site_name: api-references", "nav:">> \o [i \in 1..Len(docs) |-> NavEntry(docs[i])]

\* line 78: `Doc generation failed for API in ${api.source.fileName}, ${error.stack}`
DocGenerationFailed(api) ==
    <<"Doc generation failed for API in ", api.source, ", ", "DocGenerationError">>

(***************************************************************************)
(* What a scan of the source directory can find.                           *)
(***************************************************************************)
Names == <<"alertApiRef", "errorApiRef", "identityApiRef", "storageApiRef">>

SourceOf ==
    ("alertApiRef" :> "apis/definitions/alert.ts")
    @@ ("errorApiRef" :> "apis/definitions/error.ts")
    @@ ("identityApiRef" :> "apis/definitions/auth.ts")
    @@ ("storageApiRef" :> "apis/definitions/storage.ts")

Ids == { <<"a">>, <<"A">>, <<"a", ".", "b">>, <<"B">> }

Instance(n, id, ok) ==
    [name |-> Names[n], source |-> SourceOf[Names[n]], id |-> id, resolvable |-> ok]

\* the names of a scan of len instances; traversal order is taken along Names
NameChoices(len) ==
    {f \in [1..len -> 1..Len(Names)] : \A i \in 1..len - 1 : f[i] <= f[i + 1]}

DistinctNames(seq) == \A i, j \in 1..Len(seq) : seq[i].name = seq[j].name => i = j

(***************************************************************************)
(* main, lines 61-107.                                                     *)
(***************************************************************************)
\* lines 61-68: getExportedType and findExportedInstances; any failure aborts the scan
Discover ==
    /\ pc = "program"
    /\ \E found \in BOOLEAN :
        IF found /\ DistinctNames(exports)
        THEN /\ apis' = exports
             /\ pc' = "discovered"
             /\ error' = error
        ELSE /\ apis' = apis
             /\ pc' = "rejected"
             /\ error' = [stage |-> "discovery", message |-> <<"discovery">>]
    /\ UNCHANGED <<confVars, exports, apiDocs, dirCreated, cursor, writes, settled, manifest,
                   exitCode, sortVars>>

FirstUnresolvable(seq) ==
    CHOOSE i \in 1..Len(seq) :
        /\ ~seq[i].resolvable
        /\ \A j \in 1..i - 1 : seq[j].resolvable

RECURSIVE Resolvable(_)
Resolvable(seq) ==
    IF seq = <<>> THEN <<>>
    ELSE IF Head(seq).resolvable THEN <<Head(seq)>> \o Resolvable(Tail(seq))
    ELSE Resolvable(Tail(seq))

\* the mutant of BuildDocs: a failing toDoc is skipped and the rest is kept
BuildDocsSkippingFailures ==
    /\ pc = "discovered"
    /\ apiDocs' = SortDocs([i \in 1..Len(Resolvable(apis)) |-> toDoc(Resolvable(apis)[i])])
    /\ pc' = "built"
    /\ UNCHANGED <<confVars, exports, apis, dirCreated, cursor, writes, settled, manifest,
                   error, exitCode, sortVars>>

\* lines 72-82: apis.map(toDoc), the first throw rethrown with the file name, then sort
BuildDocs ==
    /\ pc = "discovered"
    /\ IF \E i \in 1..Len(apis) : ~apis[i].resolvable
       THEN /\ apiDocs' = apiDocs
            /\ pc' = "rejected"
            /\ error' = [stage |-> "toDoc",
                         message |-> DocGenerationFailed(apis[FirstUnresolvable(apis)])]
       ELSE /\ apiDocs' = SortDocs([i \in 1..Len(apis) |-> toDoc(apis[i])])
            /\ pc' = "built"
            /\ error' = error
    /\ UNCHANGED <<confVars, exports, apis, dirCreated, cursor, writes, settled, manifest,
                   exitCode, sortVars>>

\* line 88: fs.ensureDirSync(resolve(apiRefsDir, 'docs'))
EnsureDir ==
    /\ pc = "built"
    /\ \E ok \in BOOLEAN :
        IF ok
        THEN /\ dirCreated' = TRUE
             /\ pc' = "rendering"
             /\ error' = error
        ELSE /\ dirCreated' = dirCreated
             /\ pc' = "rejected"
             /\ error' = [stage |-> "mkdir", message |-> <<"mkdir">>]
    /\ UNCHANGED <<confVars, exports, apis, apiDocs, cursor, writes, settled, manifest,
                   exitCode, sortVars>>

IssuedWrite(doc) == [path |-> DocPath(doc), data |-> print(doc), status |-> "pending"]

\* the mutant of PrintAndWrite: the write is issued before print is called
WriteThenPrint ==
    /\ pc = "rendering"
    /\ cursor <= Len(apiDocs)
    /\ writes' = Append(writes, IssuedWrite(apiDocs[cursor]))
    /\ \E printed \in BOOLEAN :
        IF printed
        THEN /\ cursor' = cursor + 1
             /\ UNCHANGED <<pc, error>>
        ELSE /\ cursor' = cursor
             /\ pc' = "rejected"
             /\ error' = [stage |-> "print", message |-> <<"print">>]
    /\ UNCHANGED <<confVars, exports, apis, apiDocs, dirCreated, settled, manifest,
                   exitCode, sortVars>>

\* lines 91-95: the callback of apiDocs.map on the next document: print, then writeFile
PrintAndWrite ==
    /\ pc = "rendering"
    /\ cursor <= Len(apiDocs)
    /\ \E printed \in BOOLEAN :
        IF printed
        THEN /\ writes' = Append(writes, IssuedWrite(apiDocs[cursor]))
             /\ cursor' = cursor + 1
             /\ UNCHANGED <<pc, error>>
        ELSE /\ UNCHANGED <<writes, cursor>>
             /\ pc' = "rejected"
             /\ error' = [stage |-> "print", message |-> <<"print">>]
    /\ UNCHANGED <<confVars, exports, apis, apiDocs, dirCreated, settled, manifest,
                   exitCode, sortVars>>

\* line 28: a writeFile in flight completes
WriteSucceeds ==
    /\ pc # "exited"
    /\ \E i \in 1..Len(writes) :
        /\ writes[i].status = "pending"
        /\ writes' = [writes EXCEPT ![i].status = "written"]
        /\ settled' = Append(settled, i)
    /\ UNCHANGED <<confVars, exports, apis, apiDocs, dirCreated, cursor, manifest,
                   ctlVars, sortVars>>

\* line 28: a writeFile in flight fails
WriteFails ==
    /\ pc # "exited"
    /\ \E i \in 1..Len(writes) :
        /\ writes[i].status = "pending"
        /\ writes' = [writes EXCEPT ![i].status = "failed"]
        /\ settled' = Append(settled, i)
    /\ UNCHANGED <<confVars, exports, apis, apiDocs, dirCreated, cursor, manifest,
                   ctlVars, sortVars>>

\* the mutant of AwaitResolved: the promise of the writes is not awaited
AwaitSkipped ==
    /\ pc = "rendering"
    /\ cursor > Len(apiDocs)
    /\ pc' = "persisted"
    /\ UNCHANGED <<confVars, runVars, error, exitCode, sortVars>>

\* line 90: await Promise.all(...) resumes main once every write has succeeded
AwaitResolved ==
    /\ pc = "rendering"
    /\ cursor > Len(apiDocs)
    /\ \A i \in 1..Len(writes) : writes[i].status = "written"
    /\ pc' = "persisted"
    /\ UNCHANGED <<confVars, runVars, error, exitCode, sortVars>>

\* line 90: await Promise.all(...) throws once a write has failed
AwaitRejected ==
    /\ pc = "rendering"
    /\ cursor > Len(apiDocs)
    /\ \E i \in 1..Len(writes) : writes[i].status = "failed"
    /\ pc' = "rejected"
    /\ error' = [stage |-> "write", message |-> <<"write">>]
    /\ UNCHANGED <<confVars, runVars, exitCode, sortVars>>

\* lines 98-106: fs.writeFileSync(mkdocsYaml, ...)
WriteManifest ==
    /\ pc = "persisted"
    /\ \E ok \in BOOLEAN :
        IF ok
        THEN /\ manifest' = ManifestLines(apiDocs)
             /\ pc' = "resolved"
             /\ error' = error
        ELSE /\ manifest' = manifest
             /\ pc' = "rejected"
             /\ error' = [stage |-> "manifest", message |-> <<"manifest">>]
    /\ UNCHANGED <<confVars, exports, apis, apiDocs, dirCreated, cursor, writes, settled,
                   exitCode, sortVars>>

\* the mutant of ExitFailure: the handler logs the error and does not set the status
ExitFailureStatusZero ==
    /\ pc = "rejected"
    /\ pc' = "exited"
    /\ exitCode' = 0
    /\ UNCHANGED <<confVars, runVars, error, sortVars>>

\* lines 109-112: the rejection handler
ExitFailure ==
    /\ pc = "rejected"
    /\ pc' = "exited"
    /\ exitCode' = 1
    /\ UNCHANGED <<confVars, runVars, error, sortVars>>

\* main resolved: the process ends when nothing is left to run
ExitSuccess ==
    /\ pc = "resolved"
    /\ pc' = "exited"
    /\ exitCode' = 0
    /\ UNCHANGED <<confVars, runVars, error, sortVars>>

InitIdle ==
    /\ loaded = Thrown
    /\ options = NoOptions
    /\ programOptions = NoOptions
    /\ apis = <<>>
    /\ apiDocs = <<>>
    /\ dirCreated = FALSE
    /\ cursor = 1
    /\ writes = <<>>
    /\ settled = <<>>
    /\ manifest = <<>>
    /\ error = NoError
    /\ exitCode = -1
    /\ sortOut = <<>>
    /\ sortAgain = <<>>

InitOptions ==
    /\ files \in FileSystems
    /\ exports = <<>>
    /\ sortIn = <<>>
    /\ pc = "start"
    /\ InitIdle

NextOptions == LoadConfig \/ CreateProgram \/ ExitFailure

SpecOptions == InitOptions /\ [][NextOptions]_vars

(***************************************************************************)
(* The whole run.                                                          *)
(***************************************************************************)
Init ==
    /\ files \in RunFileSystems
    /\ \E len \in 0..MaxApis :
        \E ns \in NameChoices(len), ids \in [1..len -> Ids], oks \in [1..len -> BOOLEAN] :
            exports = [i \in 1..len |-> Instance(ns[i], ids[i], oks[i])]
    /\ sortIn = <<>>
    /\ pc = "start"
    /\ InitIdle

Next ==
    \/ LoadConfig
    \/ CreateProgram
    \/ Discover
    \/ BuildDocs
    \/ EnsureDir
    \/ PrintAndWrite
    \/ WriteSucceeds
    \/ WriteFails
    \/ AwaitResolved
    \/ AwaitRejected
    \/ WriteManifest
    \/ ExitSuccess
    \/ ExitFailure

Spec == Init /\ [][Next]_vars

(***************************************************************************)
(* Sorting on its own: every sequence of documents, sorted and sorted      *)
(* again.                                                                  *)
(***************************************************************************)
DistinctNameChoices(len) ==
    {f \in [1..len -> 1..Len(Names)] : \A i, j \in 1..len : f[i] = f[j] => i = j}

SortOnce ==
    /\ pc = "sort"
    /\ sortOut' = SortDocs(sortIn)
    /\ pc' = "sorted"
    /\ UNCHANGED <<confVars, runVars, error, exitCode, sortIn, sortAgain>>

SortTwice ==
    /\ pc = "sorted"
    /\ sortAgain' = SortDocs(sortOut)
    /\ pc' = "resorted"
    /\ UNCHANGED <<confVars, runVars, error, exitCode, sortIn, sortOut>>

InitSort ==
    /\ files = FileSystem(PlainConfig, PlainConfig, PlainConfig)
    /\ exports = <<>>
    /\ \E len \in 0..MaxSortLen :
        \E ns \in DistinctNameChoices(len), ids \in [1..len -> Ids] :
            sortIn = [i \in 1..len |-> toDoc(Instance(ns[i], ids[i], TRUE))]
    /\ pc = "sort"
    /\ InitIdle

NextSort == SortOnce \/ SortTwice

SpecSort == InitSort /\ [][NextSort]_vars

(***************************************************************************)
(* Properties of the whole run (Spec).                                     *)
(***************************************************************************)
NoOutput == ~dirCreated /\ writes = <<>> /\ manifest = <<>>

Succeeded == pc = "exited" /\ exitCode = 0

BeforeBuild == pc \in {"start", "configured", "program", "discovered"}

KeyOrder(x, y) == CompareKeys(SortKey(x), SortKey(y))

\* C1: a failure of discovery or of toDoc leaves no output at all: no docs
\* directory, no document write, no manifest; whatever output exists, the
\* whole set of discovered instances was built into documents before it.
C1_NoOutputBeforeFullBuild ==
    /\ error.stage \in {"discovery", "toDoc"} => NoOutput
    /\ ~NoOutput =>
        /\ ~BeforeBuild
        /\ apis = exports
        /\ Len(apiDocs) = Len(apis)
        /\ \A i \in 1..Len(apis) :
            /\ apis[i].resolvable
            /\ \E j \in 1..Len(apiDocs) : apiDocs[j] = toDoc(apis[i])

C1_Witness ==
    /\ pc = "exited"
    /\ error.stage = "toDoc"
    /\ Len(apis) >= 2
    /\ apis[1].resolvable
    /\ NoOutput

\* C2: a toDoc failure is never dropped: the run is aborted at the first
\* failing instance with no document kept, the error names that instance's
\* source file, the exit status is non-zero; the status is zero only when
\* every stage succeeded.
C2_ToDocFailureAborts ==
    /\ (~BeforeBuild /\ \E i \in 1..Len(apis) : ~apis[i].resolvable) =>
        /\ error.stage = "toDoc"
        /\ \E i \in 1..Len(apis) :
            /\ ~apis[i].resolvable
            /\ \A j \in 1..i - 1 : apis[j].resolvable
            /\ error.message[2] = apis[i].source
        /\ apiDocs = <<>>
        /\ pc \in {"rejected", "exited"}
        /\ pc = "exited" => exitCode = 1
    /\ (pc = "exited" /\ error # NoError) => exitCode = 1
    /\ Succeeded =>
        /\ error = NoError
        /\ loaded.status = "ok"
        /\ programOptions = options
        /\ apis = exports
        /\ \A i \in 1..Len(apis) : apis[i].resolvable
        /\ Len(apiDocs) = Len(apis)
        /\ dirCreated
        /\ Len(writes) = Len(apiDocs)
        /\ \A i \in 1..Len(writes) : writes[i].status = "written"
        /\ manifest # <<>>

C2_Witness ==
    /\ pc = "exited"
    /\ exitCode = 1
    /\ error.stage = "toDoc"
    /\ Len(apis) = 3
    /\ apis[1].resolvable /\ ~apis[2].resolvable /\ ~apis[3].resolvable
    /\ apis[2].source # apis[3].source
    /\ error.message[2] = apis[2].source

\* the last segment of a path
Basename(path) == path[Len(path)]

\* C3: in a successful run the manifest holds one navigation entry per built
\* document, each mapping the document's id to the file name the document
\* was written to, in case-insensitive id order, whatever the discovery
\* order and the completion order of the writes.
C3_ManifestMatchesDocuments ==
    Succeeded =>
        /\ Len(manifest) = 2 + Len(apis)
        /\ Len(writes) = Len(apis)
        /\ \A i \in 1..Len(apis) :
            Cardinality({j \in 1..Len(apiDocs) : apiDocs[j] = toDoc(apis[i])}) = 1
        /\ \A j \in 1..Len(manifest) - 2 :
            /\ writes[j].data = print(apiDocs[j])
            /\ writes[j].status = "written"
            /\ manifest[2 + j] =
                "  - " \o Text(apiDocs[j].id) \o ": '" \o Basename(writes[j].path) \o "'"
        /\ \A j, k \in 1..Len(manifest) - 2 :
            j < k => KeyOrder(apiDocs[j].id, apiDocs[k].id) <= 0

C3_Witness ==
    /\ Succeeded
    /\ Len(apis) = 3
    /\ KeyOrder(apis[1].id, apis[2].id) > 0
    /\ KeyOrder(apis[2].id, apis[3].id) > 0
    /\ settled = <<3, 1, 2>>
    /\ Len(manifest) = 5

\* C4: the manifest is written only after every document write has
\* succeeded, in any interleaving of the writes; once a write has failed the
\* manifest is never written and the exit status is non-zero.
C4_ManifestAfterAllWrites ==
    /\ (manifest # <<>> \/ pc \in {"persisted", "resolved"}) =>
        /\ Len(writes) = Len(apiDocs)
        /\ \A i \in 1..Len(writes) : writes[i].status = "written"
    /\ (\E i \in 1..Len(writes) : writes[i].status = "failed") =>
        /\ manifest = <<>>
        /\ pc = "exited" => exitCode = 1

C4_Witness ==
    /\ pc = "exited"
    /\ exitCode = 1
    /\ Len(writes) = 3
    /\ writes[1].status = "written"
    /\ writes[2].status = "failed"
    /\ writes[3].status = "pending"
    /\ settled = <<2, 1>>
    /\ manifest = <<>>

\* C5: the writes of one run address pairwise distinct paths, so no two
\* writes in flight share a file and a successful run leaves as many
\* artifacts as documents.
C5_DistinctOutputPaths ==
    /\ \A i, j \in 1..Len(writes) : writes[i].path = writes[j].path => i = j
    /\ Succeeded =>
        Cardinality({writes[i].path : i \in 1..Len(writes)}) = Len(apiDocs)

C5_Witness ==
    /\ Len(writes) = 3
    /\ \A i \in 1..3 : writes[i].status = "pending"
    /\ apiDocs[1].id = apiDocs[2].id
    /\ apiDocs[1].name # apiDocs[2].name

\* C6: a duplicate id is a hard error, so a successful run has pairwise
\* distinct navigation keys.
C6_NavigationKeysDistinct ==
    Succeeded =>
        \A i, j \in 1..Len(apiDocs) : apiDocs[i].id = apiDocs[j].id => i = j

\* C10 as claimed: a failure of print leaves no document write issued.
C10_NoWriteBeforeAllPrinted ==
    error.stage = "print" => writes = <<>>

\* C10 as the code has it: the write of a document is issued once print has
\* returned for it and for every document before it; a failure of print on
\* a document leaves exactly the writes of the documents before it issued,
\* no manifest, and a non-zero exit status.
C10_WriteFollowsOwnPrint ==
    /\ Len(writes) = cursor - 1
    /\ Len(writes) <= Len(apiDocs)
    /\ \A i \in 1..Len(writes) : writes[i].data = print(apiDocs[i])
    /\ error.stage = "print" =>
        /\ cursor <= Len(apiDocs)
        /\ manifest = <<>>
        /\ pc = "exited" => exitCode = 1

C10_Witness ==
    /\ pc = "exited"
    /\ error.stage = "print"
    /\ cursor = 3
    /\ Len(apiDocs) = 3
    /\ writes[1].status = "written"
    /\ writes[2].status = "pending"

(***************************************************************************)
(* Properties of the sort (SpecSort).                                      *)
(***************************************************************************)
PositionIn(seq, x) == CHOOSE i \in 1..Len(seq) : seq[i] = x

IsSortedById(seq) ==
    \A i, j \in 1..Len(seq) : i < j => KeyOrder(seq[i].id, seq[j].id) <= 0

\* C7: the sort by id is stable and idempotent: documents whose ids tie,
\* also when they differ in letter case only, keep their input order, and
\* a sorted sequence sorted again is returned as it is.
C7_SortStableIdempotent ==
    pc \in {"sorted", "resorted"} =>
        /\ Len(sortOut) = Len(sortIn)
        /\ \A i \in 1..Len(sortIn) : \E j \in 1..Len(sortOut) : sortOut[j] = sortIn[i]
        /\ \A i, j \in 1..Len(sortOut) :
            (i < j /\ KeyOrder(sortOut[i].id, sortOut[j].id) = 0) =>
                PositionIn(sortIn, sortOut[i]) < PositionIn(sortIn, sortOut[j])
        /\ IsSortedById(sortIn) => sortOut = sortIn
        /\ pc = "resorted" => sortAgain = sortOut

C7_Witness ==
    /\ pc = "resorted"
    /\ Len(sortIn) = 3
    /\ sortIn[1].id = <<"B">>
    /\ sortIn[2].id = <<"A">>
    /\ sortIn[3].id = <<"a">>
    /\ sortOut = <<sortIn[2], sortIn[3], sortIn[1]>>

(***************************************************************************)
(* Properties of the options (SpecOptions).                                *)
(***************************************************************************)
\* the files of an extends chain, nearest first
RECURSIVE ConfigChain(_, _)
ConfigChain(path, fuel) ==
    IF fuel = 0 \/ path \notin DOMAIN files THEN <<>>
    ELSE IF files[path].extends = <<>> THEN <<path>>
    ELSE <<path>> \o ConfigChain(ParentPath(path, files[path].extends), fuel - 1)

OwnOptions(path) ==
    IF files[path].defined THEN files[path].compilerOptions ELSE NoOptions

\* C8: loadOptions returns the merge of the file with its whole chain of
\* parents: each key has the value of the nearest file of the chain that
\* defines it, keys of ancestors only are kept; a file without a parent
\* yields its own compilerOptions.
C8_NearestDefinitionWins ==
    (pc # "start" /\ loaded.status # "throw") =>
        LET chain == ConfigChain(RootConfig, MaxStack)
            Definers(k) == {i \in 1..Len(chain) : k \in DOMAIN OwnOptions(chain[i])}
            Nearest(k) == CHOOSE i \in Definers(k) : \A j \in Definers(k) : i <= j
        IN  /\ Len(chain) >= 1
            /\ files[chain[Len(chain)]].extends = <<>>
            /\ (loaded.status = "undefined") =
                    (Len(chain) = 1 /\ ~files[RootConfig].defined)
            /\ loaded.status = "ok" =>
                /\ DOMAIN loaded.value =
                        UNION {DOMAIN OwnOptions(chain[i]) : i \in 1..Len(chain)}
                /\ \A k \in DOMAIN loaded.value :
                        loaded.value[k] = OwnOptions(chain[Nearest(k)])[k]
                /\ Len(chain) = 1 => loaded.value = files[RootConfig].compilerOptions

C8_Witness ==
    /\ pc # "start"
    /\ loaded.status = "ok"
    /\ ConfigChain(RootConfig, MaxStack) = <<RootConfig, SharedConfig, BaseConfig, ModuleConfig>>
    /\ "strict" \in DOMAIN OwnOptions(SharedConfig)
    /\ "strict" \in DOMAIN OwnOptions(BaseConfig)
    /\ "strict" \notin DOMAIN OwnOptions(RootConfig)
    /\ OwnOptions(SharedConfig)["strict"] # OwnOptions(BaseConfig)["strict"]
    /\ loaded.value["strict"] = OwnOptions(SharedConfig)["strict"]
    /\ loaded.value["target"] = "es2019"

\* C9 as claimed: the program gets the merged options with removeComments
\* and noEmit overridden and every other key of the merged set passed on.
C9_OnlyTwoOverrides ==
    pc = "program" =>
        /\ DOMAIN programOptions = DOMAIN loaded.value \cup {"removeComments", "noEmit"}
        /\ programOptions["removeComments"] = FALSE
        /\ programOptions["noEmit"] = TRUE
        /\ \A k \in DOMAIN loaded.value \ {"removeComments", "noEmit"} :
            programOptions[k] = loaded.value[k]

\* C9 as the code has it: the program gets the merged options with
\* moduleResolution removed, removeComments false and noEmit true, and every
\* other key of the merged set passed on with its merged value.
C9_OverridesAndRemoval ==
    pc = "program" =>
        /\ DOMAIN programOptions =
            (DOMAIN loaded.value \ {"moduleResolution"}) \cup {"removeComments", "noEmit"}
        /\ programOptions["removeComments"] = FALSE
        /\ programOptions["noEmit"] = TRUE
        /\ \A k \in DOMAIN loaded.value \ {"removeComments", "noEmit", "moduleResolution"} :
            programOptions[k] = loaded.value[k]

C9_Witness ==
    /\ pc = "program"
    /\ DOMAIN loaded.value = {"moduleResolution", "noEmit", "strict", "removeComments", "target"}
    /\ loaded.value["removeComments"] = TRUE
    /\ loaded.value["noEmit"] = FALSE
    /\ programOptions["strict"] = loaded.value["strict"]
    /\ programOptions["target"] = "es2019"

=============================================================================
